---------------------------- MODULE Spec2Model ----------------------------
(***************************************************************************)
(* Model of src/index.ts, the invoice sheet parser: the POST handler and   *)
(* the functions it calls, one action per call of the handler.             *)
(*                                                                         *)
(* Text is modelled as a sequence of one-character strings, so that        *)
(* endsWith, startsWith, split, length, parseInt and the `${..}` templates *)
(* are computed as the code computes them.  A cell value is a record       *)
(* [t, s, n]: t = "s" a string with characters s, t = "n" a number n,      *)
(* t = "u" undefined, t = "nan" NaN, t = "o" an object inherited from      *)
(* Object.prototype, t = "l" an array with elements s.                     *)
(***************************************************************************)
EXTENDS Integers, Sequences, FiniteSets, TLC

VARIABLES
    file,                     \* the sheet: sequence of [k, v], Object.entries order
    invoicingMonthParameter,  \* req.body.invoicingMonth
    pc,                       \* position of the handler
    error,                    \* message of the Error thrown, <<>> when none
    invoicingMonth,           \* const invoicingMonth of the handler
    currencyRates,            \* result of parseCurrencyRates
    rowsToProcess,            \* local rowsToProcess of parseInvoicesData
    invoicesData,             \* let invoicesData of the handler
    outputObj                 \* what res.send received

vars == <<file, invoicingMonthParameter, pc, error, invoicingMonth,
          currencyRates, rowsToProcess, invoicesData, outputObj>>

-----------------------------------------------------------------------------
(* Text constants of the source.                                           *)
s_Status ==
    <<"S", "t", "a", "t", "u", "s">>
s_InvoiceNo ==
    <<"I", "n", "v", "o", "i", "c", "e", " ", "#">>
s_Ready ==
    <<"R", "e", "a", "d", "y">>
s_Done ==
    <<"D", "o", "n", "e">>
s_Customer ==
    <<"C", "u", "s", "t", "o", "m", "e", "r">>
s_CustNo ==
    <<"C", "u", "s", "t", " ", "N", "o", "'">>
s_ProjectType ==
    <<"P", "r", "o", "j", "e", "c", "t", " ", "T", "y", "p", "e">>
s_Quantity ==
    <<"Q", "u", "a", "n", "t", "i", "t", "y">>
s_PricePerItem ==
    <<"P", "r", "i", "c", "e", " ", "P", "e", "r", " ", "I", "t", "e", "m">>
s_ItemPriceCurrency ==
    <<"I", "t", "e", "m", " ", "P", "r", "i", "c", "e", " ", "C", "u", "r", "r", "e", "n", "c", "y">>
s_TotalPrice ==
    <<"T", "o", "t", "a", "l", " ", "P", "r", "i", "c", "e">>
s_InvoiceCurrency ==
    <<"I", "n", "v", "o", "i", "c", "e", " ", "C", "u", "r", "r", "e", "n", "c", "y">>
s_InvoiceTotal ==
    <<"I", "n", "v", "o", "i", "c", "e", " ", "T", "o", "t", "a", "l">>
s_Rate ==
    <<"R", "a", "t", "e">>
s_INV ==
    <<"I", "N", "V">>
s_NoValue ==
    <<"N", "o", " ", "v", "a", "l", "u", "e">>
s_NoSuchCurrency ==
    <<"N", "o", " ", "s", "u", "c", "h", " ", "c", "u", "r", "r", "e", "n", "c", "y", " ", "d", "e", "f", "i", "n", "e", "d">>
s_validationErrors ==
    <<"v", "a", "l", "i", "d", "a", "t", "i", "o", "n", "E", "r", "r", "o", "r", "s">>
s_undefined ==
    <<"u", "n", "d", "e", "f", "i", "n", "e", "d">>
s_NaN ==
    <<"N", "a", "N">>
s_A1 ==
    <<"A", "1">>
e_NoStatus ==
    <<"N", "o", " ", "'", "S", "t", "a", "t", "u", "s", "'", " ", "c", "e", "l", "l", " ", "i", "n", " ", "s", "h", "e", "e", "t">>
e_NoInvoiceNo ==
    <<"N", "o", " ", "'", "I", "n", "v", "o", "i", "c", "e", " ", "#", "'", " ", "c", "e", "l", "l", " ", "i", "n", " ", "s", "h", "e", "e", "t">>
e_WrongDate ==
    <<"W", "r", "o", "n", "g", " ", "I", "n", "v", "o", "i", "c", "e", " ", "D", "a", "t", "e">>
e_MandatoryMissing ==
    <<"M", "a", "n", "d", "a", "t", "o", "r", "y", " ", "f", "i", "e", "l", "d", " ", "i", "s", " ", "m", "i", "s", "s", "i", "n", "g">>
e_BrokenTable ==
    <<"B", "r", "o", "k", "e", "n", " ", "t", "a", "b", "l", "e">>
e_WrongColumn ==
    <<"W", "r", "o", "n", "g", " ", "c", "o", "l", "u", "m", "n", " ", "i", "n", "d", "e", "x">>
e_PeriodMismatch ==
    <<"I", "n", "v", "o", "i", "c", "i", "n", "g", " ", "m", "o", "n", "t", "h", " ", "p", "a", "r", "a", "m", " ", "d", "o", "n", "t", " ", "m", "a", "t", "c", "h", " ", "f", "i", "l", "e", " ", "i", "n", "v", "o", "i", "c", "i", "n", "g", " ", "m", "o", "n", "t", "h">>

-----------------------------------------------------------------------------
(* Values.                                                                 *)
Str(chars) == [t |-> "s", s |-> chars, n |-> 0]

Num(k) == [t |-> "n", s |-> <<>>, n |-> k]

Undef == [t |-> "u", s |-> <<>>, n |-> 0]

NaN == [t |-> "nan", s |-> <<>>, n |-> 0]

InheritedObj == [t |-> "o", s |-> <<>>, n |-> 0]

List(elems) == [t |-> "l", s |-> elems, n |-> 0]

IsStr(v) == v.t = "s"

IsNum(v) == v.t = "n"

\* JavaScript truthiness, for `if (file[cellIndex])` and `||`
Truthy(v) ==
    CASE v.t = "s" -> v.s # <<>>
      [] v.t = "n" -> v.n # 0
      [] v.t = "u" -> FALSE
      [] v.t = "nan" -> FALSE
      [] OTHER -> TRUE

DigitChars == <<"0", "1", "2", "3", "4", "5", "6", "7", "8", "9">>

IsDigit(c) == \E i \in 1..10 : DigitChars[i] = c

DigitVal(c) == (CHOOSE i \in 1..10 : DigitChars[i] = c) - 1

\* `${n}` of a non-negative integer
RECURSIVE NatToString(_)
NatToString(k) ==
    IF k < 10 THEN <<DigitChars[k + 1]>>
    ELSE NatToString(k \div 10) \o <<DigitChars[(k % 10) + 1]>>

\* the longest prefix of digits
RECURSIVE DigitPrefix(_)
DigitPrefix(chars) ==
    IF chars = <<>> \/ ~IsDigit(Head(chars)) THEN <<>>
    ELSE <<Head(chars)>> \o DigitPrefix(Tail(chars))

RECURSIVE DigitsToNat(_, _)
DigitsToNat(chars, acc) ==
    IF chars = <<>> THEN acc
    ELSE DigitsToNat(Tail(chars), acc * 10 + DigitVal(Head(chars)))

\* String(v), the conversion parseInt, parseFloat, templates and property keys apply
ToStringChars(v) ==
    CASE v.t = "s" -> v.s
      [] v.t = "n" -> NatToString(v.n)
      [] v.t = "u" -> s_undefined
      [] v.t = "nan" -> s_NaN
      [] OTHER -> <<"f", "u", "n", "c", "t", "i", "o", "n">> \* the start of a function's text

\* parseInt(x): the leading decimal digits of String(x), NaN when there are none
parseInt(v) ==
    LET d == DigitPrefix(ToStringChars(v))
    IN  IF d = <<>> THEN NaN ELSE Num(DigitsToNat(d, 0))

\* parseFloat(x) on the values of the model, none of which has a fraction
parseFloat(v) ==
    LET d == DigitPrefix(ToStringChars(v))
    IN  IF d = <<>> THEN NaN ELSE Num(DigitsToNat(d, 0))

\* a * b of JavaScript numbers
Times(a, b) == IF IsNum(a) /\ IsNum(b) THEN Num(a.n * b.n) ELSE NaN

\* a > b of JavaScript numbers: false when either is NaN
Greater(a, b) == IsNum(a) /\ IsNum(b) /\ a.n > b.n

EndsWith(chars, suffix) ==
    /\ Len(chars) >= Len(suffix)
    /\ SubSeq(chars, Len(chars) - Len(suffix) + 1, Len(chars)) = suffix

StartsWith(chars, prefix) ==
    /\ Len(chars) >= Len(prefix)
    /\ SubSeq(chars, 1, Len(prefix)) = prefix

\* chars.split(" ")[0]
RECURSIVE SplitFirst(_)
SplitFirst(chars) ==
    IF chars = <<>> \/ Head(chars) = " " THEN <<>>
    ELSE <<Head(chars)>> \o SplitFirst(Tail(chars))

\* chars.split(" ")[1], undefined when there is no space
RECURSIVE SplitSecond(_)
SplitSecond(chars) ==
    IF chars = <<>> THEN Undef
    ELSE IF Head(chars) = " " THEN Str(SplitFirst(Tail(chars)))
    ELSE SplitSecond(Tail(chars))

-----------------------------------------------------------------------------
(* Constants and helpers of src/index.ts.                                  *)
mandatoryFields ==
    {s_Customer, s_CustNo, s_ProjectType, s_Quantity, s_PricePerItem,
     s_ItemPriceCurrency, s_TotalPrice, s_InvoiceCurrency, s_Status}

columnLetters ==
    <<"A", "B", "C", "D", "E", "F", "G", "H", "I", "J", "K", "L", "M",
      "N", "O", "P", "Q", "R", "S", "T", "U", "V", "W", "X", "Y", "Z">>

CHAR_OFFSET == 65

\* cell.charCodeAt(0) of a cell whose first character is an upper-case letter
charCodeAt0(cell) ==
    CHAR_OFFSET + (CHOOSE i \in 1..Len(columnLetters) : columnLetters[i] = cell[1]) - 1

\* property names every object literal inherits from Object.prototype
ObjectPrototypeKeys ==
    {<<"c", "o", "n", "s", "t", "r", "u", "c", "t", "o", "r">>,
     <<"t", "o", "S", "t", "r", "i", "n", "g">>,
     <<"v", "a", "l", "u", "e", "O", "f">>}

EmptyObject == [k \in {} |-> Undef]

\* obj[key] = value
PropSet(obj, key, value) ==
    [k \in (DOMAIN obj) \cup {key} |-> IF k = key THEN value ELSE obj[k]]

\* obj[key] of an object created by a literal: own property, else inherited
PropGet(obj, key) ==
    IF key \in DOMAIN obj THEN obj[key]
    ELSE IF key \in ObjectPrototypeKeys THEN InheritedObj
    ELSE Undef

\* map.get(key) of a Map
MapGet(map, key) == IF key \in DOMAIN map THEN map[key] ELSE Undef

fileToEntries(f) == f

\* file[cellIndex]: the value of the cell, undefined when the sheet has none
FileGet(f, cellIndex) ==
    IF \E i \in DOMAIN f : f[i].k = cellIndex
    THEN f[CHOOSE i \in DOMAIN f : f[i].k = cellIndex].v
    ELSE Undef

\* entries.find(element => element[1] === value): index of the first, 0 when none
FindValue(entries, value) ==
    IF \E i \in DOMAIN entries : entries[i].v = value
    THEN CHOOSE i \in DOMAIN entries :
            /\ entries[i].v = value
            /\ \A j \in 1..(i - 1) : entries[j].v # value
    ELSE 0

rowColFromString(cell) == <<cell[1], parseInt(Str(Tail(cell)))>>

\* a !== b of JavaScript numbers: NaN differs from everything
StrictNotEqual(a, b) == a.t = "nan" \/ b.t = "nan" \/ a # b

\* `${letter}${row}`
CellIndex(letter, row) == <<letter>> \o ToStringChars(row)

getRightCellIndex(cell) ==
    LET columnIndex == charCodeAt0(cell) - CHAR_OFFSET
    IN  IF columnIndex >= 0 /\ columnIndex < Len(columnLetters) - 1
        THEN [ok |-> TRUE, cell |-> <<columnLetters[columnIndex + 2], cell[2]>>]
        ELSE [ok |-> FALSE, cell |-> <<>>]

monthNames ==
    <<<<"J", "a", "n">>, <<"F", "e", "b">>, <<"M", "a", "r">>, <<"A", "p", "r">>,
      <<"M", "a", "y">>, <<"J", "u", "n">>, <<"J", "u", "l">>, <<"A", "u", "g">>,
      <<"S", "e", "p">>, <<"O", "c", "t">>, <<"N", "o", "v">>, <<"D", "e", "c">>>>

monthsArray ==
    [m \in {monthNames[i] : i \in 1..12} |->
        LET i == CHOOSE j \in 1..12 : monthNames[j] = m
        IN  Str(IF i < 10 THEN <<"0">> \o NatToString(i) ELSE NatToString(i))]

\* a variant that leaves the date as the sheet has it
parseInvoicingDateUnparsed(dateString) == dateString

parseInvoicingDate(dateString) ==
    LET month == SplitFirst(dateString)
        year == SplitSecond(dateString)
    IN  ToStringChars(year) \o <<"-">> \o ToStringChars(PropGet(monthsArray, month))

-----------------------------------------------------------------------------
(* parseCurrencyRates                                                      *)
IsRateCell(value) == IsStr(value.v) /\ EndsWith(value.v.s, s_Rate)

RECURSIVE RatesForEach(_, _, _)
RatesForEach(f, rateCells, rates) ==
    IF rateCells = <<>> THEN [ok |-> TRUE, rates |-> rates]
    ELSE LET cellIndex == Head(rateCells).k
             cellValue == Head(rateCells).v
             rateName == SplitFirst(cellValue.s)
             right == getRightCellIndex(cellIndex)
         IN  IF ~right.ok THEN [ok |-> FALSE, rates |-> rates]
             ELSE RatesForEach(f, Tail(rateCells),
                      PropSet(rates, rateName,
                          IF Truthy(FileGet(f, right.cell))
                          THEN FileGet(f, right.cell)
                          ELSE Str(s_NoValue)))

parseCurrencyRates(f) ==
    RatesForEach(f, SelectSeq(fileToEntries(f), IsRateCell), EmptyObject)

-----------------------------------------------------------------------------
(* The zod schema invoiceDataFormat: the issues safeParse reports.         *)
ZString(v) ==
    CASE v.t = "s" -> <<>>
      [] v.t = "u" -> <<"Required">>
      [] OTHER -> <<"Expected string, received number">>

ZNumber(v) ==
    CASE v.t = "n" -> <<>>
      [] v.t = "u" -> <<"Required">>
      [] OTHER -> <<"Expected number, received string">>

ZCustNo(v) ==
    IF ZNumber(v) # <<>> THEN ZNumber(v)
    ELSE (IF v.n >= 10000 THEN <<>>
          ELSE <<"Number must be greater than or equal to 10000">>)
         \o (IF v.n <= 99999 THEN <<>>
             ELSE <<"Number must be less than or equal to 99999">>)

ZStringMax20(v) ==
    IF ZString(v) # <<>> THEN ZString(v)
    ELSE IF Len(v.s) <= 20 THEN <<>>
    ELSE <<"String must contain at most 20 character(s)">>

ZStringLength3(v) ==
    IF ZString(v) # <<>> THEN ZString(v)
    ELSE IF Len(v.s) = 3 THEN <<>>
    ELSE <<"String must contain exactly 3 character(s)">>

ZStatus(v) ==
    CASE v.t = "u" -> <<"Required">>
      [] v.t = "s" /\ v.s \in {s_Ready, s_Done} -> <<>>
      [] OTHER -> <<"Invalid enum value. Expected 'Ready' | 'Done'">> \* and what it received

\* invoiceDataFormat[columnName].safeParse(cellValue): the messages of its issues
safeParse(columnName, cellValue) ==
    CASE columnName = s_Customer -> ZString(cellValue)
      [] columnName = s_CustNo -> ZCustNo(cellValue)
      [] columnName = s_ProjectType -> ZStringMax20(cellValue)
      [] columnName \in {s_Quantity, s_PricePerItem, s_TotalPrice} -> ZNumber(cellValue)
      [] columnName \in {s_ItemPriceCurrency, s_InvoiceCurrency} -> ZStringLength3(cellValue)
      [] columnName = s_Status -> ZStatus(cellValue)
      [] OTHER -> <<>>

-----------------------------------------------------------------------------
(* parseInvoicesData                                                       *)
\* the Map columns: header cell index -> column name, for the truthy header cells
ColumnsOf(f, headerRowIndex) ==
    LET keys == {CellIndex(columnLetters[i], headerRowIndex) : i \in 1..Len(columnLetters)}
    IN  [k \in {c \in keys : Truthy(FileGet(f, c))} |-> FileGet(f, k)]

\* a variant of the filter callback that does not look at the row
EntryAdmittedAnyRow(value, statusCol, statusRow, invoiceNoCol) ==
    LET entryValue == value.v
        valueCol == rowColFromString(value.k)[1]
    IN  \/ valueCol = statusCol /\ entryValue = Str(s_Ready)
        \/ /\ valueCol = invoiceNoCol
           /\ IsStr(entryValue)
           /\ StartsWith(entryValue.s, s_INV)
           /\ Len(entryValue.s) = 11

\* the filter callback of entriesToProcess
EntryAdmitted(value, statusCol, statusRow, invoiceNoCol) ==
    LET entryValue == value.v
        valueCol == rowColFromString(value.k)[1]
        valueRow == rowColFromString(value.k)[2]
    IN  IF Greater(valueRow, statusRow)
        THEN IF valueCol = statusCol /\ entryValue = Str(s_Ready)
             THEN TRUE
             ELSE /\ valueCol = invoiceNoCol
                  /\ IsStr(entryValue)
                  /\ StartsWith(entryValue.s, s_INV)
                  /\ Len(entryValue.s) = 11
        ELSE FALSE

\* `${columnName}: ${message}` for each issue
RECURSIVE FormatErrors(_, _)
FormatErrors(columnName, messages) ==
    IF messages = <<>> THEN <<>>
    ELSE <<[field |-> columnName, message |-> Head(messages)]>>
         \o FormatErrors(columnName, Tail(messages))

\* a variant of the loop that stores a value only when it passed validation
RECURSIVE EntryLoopValidOnly(_, _, _, _, _, _)
EntryLoopValidOnly(f, columns, row, headerRowIndex, j, entry) ==
    IF j > Len(columnLetters) THEN entry
    ELSE LET cellIndex == CellIndex(columnLetters[j], row)
             columnNameIndex == CellIndex(columnLetters[j], headerRowIndex)
             columnName == MapGet(columns, columnNameIndex)
             cellValue == FileGet(f, cellIndex)
             issues == IF IsStr(columnName) /\ columnName.s \in mandatoryFields
                       THEN safeParse(columnName.s, cellValue)
                       ELSE <<>>
         IN  EntryLoopValidOnly(f, columns, row, headerRowIndex, j + 1,
                 IF issues # <<>>
                 THEN PropSet(entry, s_validationErrors,
                          List(PropGet(entry, s_validationErrors).s
                               \o FormatErrors(columnName.s, issues)))
                 ELSE PropSet(entry, ToStringChars(columnName), cellValue))

\* one pass of the loop over columnLetters, for j..26
RECURSIVE EntryLoop(_, _, _, _, _, _)
EntryLoop(f, columns, row, headerRowIndex, j, entry) ==
    IF j > Len(columnLetters) THEN entry
    ELSE LET cellIndex == CellIndex(columnLetters[j], row)
             columnNameIndex == CellIndex(columnLetters[j], headerRowIndex)
             columnName == MapGet(columns, columnNameIndex)
             cellValue == FileGet(f, cellIndex)
             issues == IF IsStr(columnName) /\ columnName.s \in mandatoryFields
                       THEN safeParse(columnName.s, cellValue)
                       ELSE <<>>
             validated ==
                 IF issues # <<>>
                 THEN PropSet(entry, s_validationErrors,
                          List(PropGet(entry, s_validationErrors).s
                               \o FormatErrors(columnName.s, issues)))
                 ELSE entry
         IN  EntryLoop(f, columns, row, headerRowIndex, j + 1,
                       PropSet(validated, ToStringChars(columnName), cellValue))

BuildEntry(f, columns, row, headerRowIndex) ==
    EntryLoop(f, columns, row, headerRowIndex, 1,
              PropSet(EmptyObject, s_validationErrors, List(<<>>)))

parseInvoicesData(f) ==
    LET fileEntries == fileToEntries(f)
        statusCell == fileEntries[FindValue(fileEntries, Str(s_Status))].k
        invoiceNoCell == fileEntries[FindValue(fileEntries, Str(s_InvoiceNo))].k
        statusCol == rowColFromString(statusCell)[1]
        statusRow == rowColFromString(statusCell)[2]
        invoiceNoCol == rowColFromString(invoiceNoCell)[1]
        invoiceNoRow == rowColFromString(invoiceNoCell)[2]
        columns == ColumnsOf(f, statusRow)
        Keep(value) == EntryAdmitted(value, statusCol, statusRow, invoiceNoCol)
        entriesToProcess == SelectSeq(fileEntries, Keep)
        rows == [i \in 1..Len(entriesToProcess) |->
                    parseInt(Str(Tail(entriesToProcess[i].k)))]
    IN  IF StrictNotEqual(statusRow, invoiceNoRow)
        THEN [ok |-> FALSE, rows |-> <<>>, data |-> <<>>]
        ELSE [ok |-> TRUE, rows |-> rows,
              data |-> [i \in 1..Len(rows) |-> BuildEntry(f, columns, rows[i], statusRow)]]

-----------------------------------------------------------------------------
(* calculateTotalInvoiceCurrency                                           *)
TotalOf(invoiceData, rates) ==
    LET invoiceCurrency == PropGet(invoiceData, s_InvoiceCurrency)
        rate == PropGet(rates, ToStringChars(invoiceCurrency))
    IN  IF rate # Undef
        THEN PropSet(invoiceData, s_InvoiceTotal,
                 Str(ToStringChars(Times(parseInt(PropGet(invoiceData, s_TotalPrice)),
                                         parseFloat(rate)))))
        ELSE PropSet(invoiceData, s_InvoiceTotal, Str(s_NoSuchCurrency))

calculateTotalInvoiceCurrency(data, rates) ==
    [i \in 1..Len(data) |-> TotalOf(data[i], rates)]

-----------------------------------------------------------------------------
(* validateSheetStructure: the message of the Error thrown, <<>> when none *)
validateSheetStructure(f) ==
    LET fileEntries == fileToEntries(f)
    IN  IF FindValue(fileEntries, Str(s_Status)) = 0 THEN e_NoStatus
        ELSE IF FindValue(fileEntries, Str(s_InvoiceNo)) = 0 THEN e_NoInvoiceNo
        ELSE IF ~IsStr(FileGet(f, s_A1)) THEN e_WrongDate
        ELSE IF \E mandatoryField \in mandatoryFields :
                   FindValue(fileEntries, Str(mandatoryField)) = 0
             THEN e_MandatoryMissing
        ELSE <<>>

-----------------------------------------------------------------------------
(* Values of the sheets and parameters checked.                            *)
in_Sep2023 ==
    <<"S", "e", "p", " ", "2", "0", "2", "3">>
in_Oct2023 ==
    <<"O", "c", "t", " ", "2", "0", "2", "3">>
in_2023_09 ==
    <<"2", "0", "2", "3", "-", "0", "9">>
in_2023_10 ==
    <<"2", "0", "2", "3", "-", "1", "0">>
in_Sep ==
    <<"S", "e", "p">>
in_InvNo ==
    <<"I", "N", "V", "0", "0", "0", "0", "0", "0", "0", "1">>
in_InvShort ==
    <<"I", "N", "V", "1">>
in_InvNoPrefix ==
    <<"X", "N", "V", "0", "0", "0", "0", "0", "0", "0", "1">>
in_InvLong ==
    <<"I", "N", "V", "0", "0", "0", "0", "0", "0", "0", "1", "2">>
in_USDRate ==
    <<"U", "S", "D", " ", "R", "a", "t", "e">>
in_USD ==
    <<"U", "S", "D">>
in_EUR ==
    <<"E", "U", "R">>
in_constructor ==
    <<"c", "o", "n", "s", "t", "r", "u", "c", "t", "o", "r">>
in_Acme ==
    <<"A", "c", "m", "e">>
in_Web ==
    <<"W", "e", "b">>
in_Bad ==
    <<"B", "a", "d">>
in_LongType ==
    <<"W", "e", "b", " ", "d", "e", "v", "e", "l", "o", "p", "m", "e", "n", "t", " ", "2", "0", "2", "3", "!">>
in_US ==
    <<"U", "S">>
in_abc ==
    <<"a", "b", "c">>
in_USDX ==
    <<"U", "S", "D", "X">>
in_note ==
    <<"n", "o", "t", "e">>

-----------------------------------------------------------------------------
(* The sheets and parameters checked.  A sheet is described by a record    *)
(* and laid out as: A1 the invoicing date, the ten labels in B..K of the   *)
(* header row, column L for a stray or repeated label, column Z without a  *)
(* header, a rate label in column N (or Z) with its value in column O.     *)
MaxDataRows == 2

HeaderRows == {2, 9}

Labels ==
    <<s_Customer, s_CustNo, s_ProjectType, s_Quantity, s_PricePerItem,
      s_ItemPriceCurrency, s_TotalPrice, s_InvoiceCurrency, s_Status, s_InvoiceNo>>

ColOf(label) == 1 + (CHOOSE i \in 1..Len(Labels) : Labels[i] = label)

None == <<>>

Cell(c, r, v) == [c |-> c, r |-> r, v |-> v]

NoRate == [col |-> 0, row |-> 0, value |-> Undef, decoy |-> Undef]

GoodRow == [status |-> Str(s_Ready), invno |-> Str(in_InvNo), fault |-> "none"]

Base ==
    [hdr |-> 2, a1 |-> Str(in_Sep2023), param |-> Str(in_2023_09),
     drop |-> None, moved |-> None, extra |-> "none", rows |-> <<GoodRow>>,
     above |-> FALSE, rate |-> [NoRate EXCEPT !.col = 14, !.row = 1, !.value = Num(2)],
     currency |-> Str(in_USD), zcell |-> FALSE, reverse |-> FALSE]

\* the value a data row holds under a label
FieldValue(label, row, currency) ==
    CASE label = s_Status -> row.status
      [] label = s_InvoiceNo -> row.invno
      [] label = s_Customer ->
            IF row.fault \in {"customer", "all"} THEN Num(7) ELSE Str(in_Acme)
      [] label = s_CustNo ->
            IF row.fault \in {"custno", "all"} THEN Num(123)
            ELSE IF row.fault = "custnoBig" THEN Num(123456) ELSE Num(12345)
      [] label = s_ProjectType ->
            IF row.fault = "all" THEN Str(in_LongType) ELSE Str(in_Web)
      [] label = s_Quantity -> IF row.fault = "all" THEN Str(in_abc) ELSE Num(2)
      [] label = s_PricePerItem -> IF row.fault = "all" THEN Undef ELSE Num(50)
      [] label = s_ItemPriceCurrency ->
            IF row.fault = "all" THEN Str(in_US) ELSE Str(in_USD)
      [] label = s_TotalPrice ->
            IF row.fault \in {"total", "all"} THEN Str(in_abc) ELSE Num(100)
      [] label = s_InvoiceCurrency ->
            IF row.fault = "all" THEN Str(in_USDX) ELSE currency

CellsOf(cfg) ==
    LET header ==
            {Cell(ColOf(l), cfg.hdr, Str(l)) :
                l \in {Labels[i] : i \in 1..Len(Labels)} \ {cfg.drop, cfg.moved}}
        stray ==
            (IF cfg.moved = None THEN {} ELSE {Cell(12, 1, Str(cfg.moved))})
            \cup (CASE cfg.extra = "StatusHeader" -> {Cell(12, cfg.hdr, Str(s_Status))}
                    [] cfg.extra = "StatusBelow" -> {Cell(12, cfg.hdr + 1, Str(s_Status))}
                    [] cfg.extra = "InvoiceNoHeader" -> {Cell(12, cfg.hdr, Str(s_InvoiceNo))}
                    [] cfg.extra = "InvoiceNoBelow" -> {Cell(12, cfg.hdr + 1, Str(s_InvoiceNo))}
                    [] OTHER -> {})
        data ==
            {Cell(ColOf(Labels[i]), cfg.hdr + k, FieldValue(Labels[i], cfg.rows[k], cfg.currency)) :
                i \in 1..Len(Labels), k \in 1..Len(cfg.rows)}
            \cup (IF cfg.zcell
                  THEN {Cell(26, cfg.hdr + k, Str(in_note)) : k \in 1..Len(cfg.rows)}
                  ELSE {})
        aboveHeader ==
            IF cfg.above
            THEN {Cell(ColOf(s_Status), 1, Str(s_Ready)),
                  Cell(ColOf(s_InvoiceNo), 1, Str(in_InvNo))}
            ELSE {}
        rate ==
            IF cfg.rate.col = 0 THEN {}
            ELSE {Cell(cfg.rate.col, cfg.rate.row, Str(in_USDRate)),
                  Cell(cfg.rate.col + 1, cfg.rate.row, cfg.rate.value),
                  Cell(cfg.rate.col + 1, 1, IF cfg.rate.row = 1 THEN Undef ELSE cfg.rate.decoy)}
        all == {Cell(1, 1, cfg.a1)} \cup header \cup stray \cup data \cup aboveHeader \cup rate
    IN  {x \in all : x.v # Undef /\ x.c <= Len(columnLetters)}

\* the entries of a set of cells, by rows then columns: the order of insertion
RECURSIVE RowMajor(_)
RowMajor(cells) ==
    IF cells = {} THEN <<>>
    ELSE LET first == CHOOSE x \in cells :
                          \A y \in cells : x.r < y.r \/ (x.r = y.r /\ x.c <= y.c)
         IN  <<[k |-> CellIndex(columnLetters[first.c], Num(first.r)), v |-> first.v]>>
             \o RowMajor(cells \ {first})

Reverse(seq) == [i \in 1..Len(seq) |-> seq[Len(seq) + 1 - i]]

SheetOf(cfg) ==
    IF cfg.reverse THEN Reverse(RowMajor(CellsOf(cfg))) ELSE RowMajor(CellsOf(cfg))

RowChoices ==
    [status : {Str(s_Ready), Str(s_Done)},
     invno : {Str(in_InvNo), Str(in_InvShort)},
     fault : {"none"}]

RECURSIVE RowSeqs(_)
RowSeqs(k) ==
    IF k = 0 THEN {<<>>}
    ELSE {Append(rs, r) : rs \in RowSeqs(k - 1), r \in RowChoices}

PeriodConfigs ==
    {[Base EXCEPT !.a1 = a, !.param = p] :
        a \in {Str(in_Sep2023), Str(in_Oct2023), Str(in_Sep), Num(5), Undef},
        p \in {Str(in_Sep2023), Str(in_Oct2023), Str(in_2023_09), Str(in_2023_10), Undef}}

StructureConfigs ==
    {[Base EXCEPT !.hdr = h, !.drop = d, !.reverse = rv] :
        h \in HeaderRows, d \in {Labels[i] : i \in 1..Len(Labels)}, rv \in BOOLEAN}
    \cup {[Base EXCEPT !.hdr = h, !.moved = m, !.reverse = rv] :
        h \in HeaderRows, rv \in BOOLEAN,
        m \in {s_Customer, s_TotalPrice, s_Status, s_InvoiceNo}}
    \cup {[Base EXCEPT !.hdr = h, !.extra = x, !.reverse = rv] :
        h \in HeaderRows, rv \in BOOLEAN,
        x \in {"StatusHeader", "StatusBelow", "InvoiceNoHeader", "InvoiceNoBelow"}}

AdmissionConfigs ==
    {[Base EXCEPT !.hdr = h, !.rows = rs, !.above = ab, !.reverse = rv] :
        h \in HeaderRows, rs \in RowSeqs(MaxDataRows), ab \in BOOLEAN, rv \in BOOLEAN}
    \cup {[Base EXCEPT !.rows = <<[GoodRow EXCEPT !.status = s, !.invno = n]>>] :
        s \in {Str(s_Ready), Str(in_Bad), Undef},
        n \in {Str(in_InvNo), Str(in_InvNoPrefix), Str(in_InvLong), Num(7), Undef}}

Faults == {"none", "custno", "custnoBig", "customer", "total", "all"}

ValidationConfigs ==
    {[Base EXCEPT !.rows = <<[GoodRow EXCEPT !.fault = f1],
                             [GoodRow EXCEPT !.fault = f2, !.status = s]>>,
                  !.zcell = z] :
        f1 \in Faults, f2 \in Faults, s \in {Str(s_Ready), Str(in_Bad)}, z \in BOOLEAN}

RateConfigs ==
    {[Base EXCEPT !.rate = [col |-> c, row |-> r, value |-> v, decoy |-> d],
                  !.currency = cur] :
        c \in {14}, r \in {1, 10}, v \in {Num(2), Str(<<"3">>), Num(0), Undef},
        d \in {Undef, Num(7)},
        cur \in {Str(in_USD), Str(in_EUR), Str(in_constructor), Undef}}
    \cup {[Base EXCEPT !.rate = r] :
            r \in {NoRate, [NoRate EXCEPT !.col = 26, !.row = 1, !.value = Num(2)]}}

Configs ==
    PeriodConfigs \cup StructureConfigs \cup AdmissionConfigs
    \cup ValidationConfigs \cup RateConfigs

-----------------------------------------------------------------------------
(* The POST handler, one action per call it makes.                         *)
Init ==
    /\ \E cfg \in Configs :
        /\ file = SheetOf(cfg)
        /\ invoicingMonthParameter = cfg.param
    /\ pc = "validateSheetStructure"
    /\ error = <<>>
    /\ invoicingMonth = <<>>
    /\ currencyRates = EmptyObject
    /\ rowsToProcess = <<>>
    /\ invoicesData = <<>>
    /\ outputObj = <<>>

Throw(message) ==
    /\ pc' = "thrown"
    /\ error' = message

ValidateSheetStructure ==
    /\ pc = "validateSheetStructure"
    /\ IF validateSheetStructure(file) # <<>>
       THEN Throw(validateSheetStructure(file))
       ELSE pc' = "parseInvoicingDate" /\ UNCHANGED error
    /\ UNCHANGED <<file, invoicingMonthParameter, invoicingMonth, currencyRates,
                   rowsToProcess, invoicesData, outputObj>>

\* invoicingMonth !== invoicingMonthParameter
ParamDiffers(month, parameter) == ~(IsStr(parameter) /\ parameter.s = month)

CheckInvoicingMonth ==
    /\ pc = "parseInvoicingDate"
    /\ invoicingMonth' = parseInvoicingDate(FileGet(file, s_A1).s)
    /\ IF ParamDiffers(invoicingMonth', invoicingMonthParameter)
       THEN Throw(e_PeriodMismatch)
       ELSE pc' = "parseCurrencyRates" /\ UNCHANGED error
    /\ UNCHANGED <<file, invoicingMonthParameter, currencyRates, rowsToProcess,
                   invoicesData, outputObj>>

ParseCurrencyRates ==
    /\ pc = "parseCurrencyRates"
    /\ LET result == parseCurrencyRates(file)
       IN  IF result.ok
           THEN /\ currencyRates' = result.rates
                /\ pc' = "parseInvoicesData"
                /\ UNCHANGED error
           ELSE Throw(e_WrongColumn) /\ UNCHANGED currencyRates
    /\ UNCHANGED <<file, invoicingMonthParameter, invoicingMonth, rowsToProcess,
                   invoicesData, outputObj>>

ParseInvoicesData ==
    /\ pc = "parseInvoicesData"
    /\ LET result == parseInvoicesData(file)
       IN  IF result.ok
           THEN /\ rowsToProcess' = result.rows
                /\ invoicesData' = result.data
                /\ pc' = "calculateTotalInvoiceCurrency"
                /\ UNCHANGED error
           ELSE Throw(e_BrokenTable) /\ UNCHANGED <<rowsToProcess, invoicesData>>
    /\ UNCHANGED <<file, invoicingMonthParameter, invoicingMonth, currencyRates,
                   outputObj>>

CalculateTotalInvoiceCurrency ==
    /\ pc = "calculateTotalInvoiceCurrency"
    /\ invoicesData' = calculateTotalInvoiceCurrency(invoicesData, currencyRates)
    /\ pc' = "send"
    /\ UNCHANGED <<file, invoicingMonthParameter, error, invoicingMonth,
                   currencyRates, rowsToProcess, outputObj>>

Send ==
    /\ pc = "send"
    /\ outputObj' = [InvoicingMonth |-> invoicingMonth,
                     currencyRates |-> currencyRates,
                     invoicesData |-> invoicesData]
    /\ pc' = "sent"
    /\ UNCHANGED <<file, invoicingMonthParameter, error, invoicingMonth,
                   currencyRates, rowsToProcess, invoicesData>>

Next ==
    \/ ValidateSheetStructure
    \/ CheckInvoicingMonth
    \/ ParseCurrencyRates
    \/ ParseInvoicesData
    \/ CalculateTotalInvoiceCurrency
    \/ Send

Spec == Init /\ [][Next]_vars

-----------------------------------------------------------------------------
(* The sheet as the specification describes it, read by coordinate.        *)
RowOfKey(key) == DigitsToNat(Tail(key), 0)

ColOfKey(key) == CHOOSE i \in 1..Len(columnLetters) : columnLetters[i] = key[1]

KeyAt(c, r) == <<columnLetters[c]>> \o NatToString(r)

ValueAt(c, r) == FileGet(file, KeyAt(c, r))

CountOf(value) == Cardinality({i \in DOMAIN file : file[i].v = value})

SheetRows == {RowOfKey(file[i].k) : i \in DOMAIN file}

\* the anchors parseInvoicesData uses: the first "Status" and "Invoice #" entries
StatusKey == file[FindValue(file, Str(s_Status))].k

InvoiceNoKey == file[FindValue(file, Str(s_InvoiceNo))].k

HeaderRow == RowOfKey(StatusKey)

WellFormedInvoiceNo(v) ==
    IsStr(v) /\ Len(v.s) = 11 /\ SubSeq(v.s, 1, 3) = s_INV

RowQualifies(r) ==
    \/ ValueAt(ColOfKey(StatusKey), r) = Str(s_Ready)
    \/ WellFormedInvoiceNo(ValueAt(ColOfKey(InvoiceNoKey), r))

AdmittedRows == {r \in SheetRows : r > HeaderRow /\ RowQualifies(r)}

\* the column names of the header row
LayoutColumns == {c \in 1..Len(columnLetters) : Truthy(ValueAt(c, HeaderRow))}

LayoutNames == {ToStringChars(ValueAt(c, HeaderRow)) : c \in LayoutColumns}

StructureErrors == {e_NoStatus, e_NoInvoiceNo, e_WrongDate, e_MandatoryMissing}

\* validateSheetStructure returned without throwing
StructureAccepted ==
    /\ pc # "validateSheetStructure"
    /\ ~(pc = "thrown" /\ error \in StructureErrors)

\* the period check was reached and has been made
PeriodChecked ==
    /\ StructureAccepted
    /\ pc # "parseInvoicingDate"

PeriodRejected == pc = "thrown" /\ error = e_PeriodMismatch

\* parseCurrencyRates returned
RatesBuilt == pc \in {"parseInvoicesData", "calculateTotalInvoiceCurrency", "send", "sent"}

\* parseInvoicesData returned its records, not yet enriched
RecordsExtracted == pc = "calculateTotalInvoiceCurrency"

\* calculateTotalInvoiceCurrency returned
TotalsCalculated == pc \in {"send", "sent"}

Contains(text, part) ==
    \E i \in 1..(Len(text) - Len(part) + 1) : SubSeq(text, i, i + Len(part) - 1) = part

-----------------------------------------------------------------------------
\* C1: parseInvoicesData emits exactly one record per admitted row number: a
\* row that has "Ready" in the status column and a well-formed invoice number
\* yields one record, so the records are as many as the distinct admitted rows.
C1_OneRecordPerAdmittedRow ==
    RecordsExtracted => Len(invoicesData) = Cardinality(AdmittedRows)

\* C2: the rows a record is emitted for are exactly the rows below the header
\* row whose status cell is "Ready" or whose invoice-number cell is an
\* 11-character string starting with "INV"; no row at or above the header row.
C2_AdmittedRowsExact ==
    RecordsExtracted =>
        /\ {rowsToProcess[i] : i \in DOMAIN rowsToProcess} = {Num(r) : r \in AdmittedRows}
        /\ Len(invoicesData) = Len(rowsToProcess)

\* a sheet with a qualifying cell above the header row, an admitted row and a
\* row below the header row that qualifies on neither count
C2_Witness ==
    /\ RecordsExtracted
    /\ AdmittedRows # {}
    /\ \E r \in SheetRows : r < HeaderRow /\ RowQualifies(r)
    /\ \E r \in SheetRows : r > HeaderRow /\ ~RowQualifies(r)

\* the "<Mon> <YYYY>" dates of the sheets checked, and their canonical forms
MonthYearDates == {in_Sep2023, in_Oct2023}

CanonicalOf(date) == IF date = in_Sep2023 THEN in_2023_09 ELSE in_2023_10

DateCell == FileGet(file, s_A1)

\* C3 (as stated): with the caller's period in the "<Mon> <YYYY>" format, the
\* request fails with the period-mismatch error exactly when the caller's
\* period is another month than the one in A1.
C3_PeriodMismatchAsStated ==
    (/\ PeriodChecked
     /\ DateCell.s \in MonthYearDates
     /\ IsStr(invoicingMonthParameter)
     /\ invoicingMonthParameter.s \in MonthYearDates)
    => (PeriodRejected <=> invoicingMonthParameter.s # DateCell.s)

\* C3 (amended): with A1 in the "<Mon> <YYYY>" format, the request fails with
\* the period-mismatch error, before any rate table or record is built,
\* exactly when the caller's parameter is not the canonical "YYYY-MM" form of
\* A1; a request that is answered carries that canonical form.
C3_PeriodMismatchCanonical ==
    (PeriodChecked /\ DateCell.s \in MonthYearDates) =>
        /\ PeriodRejected <=> invoicingMonthParameter # Str(CanonicalOf(DateCell.s))
        /\ PeriodRejected =>
              currencyRates = EmptyObject /\ rowsToProcess = <<>> /\ invoicesData = <<>>
        /\ pc = "sent" => outputObj.InvoicingMonth = CanonicalOf(DateCell.s)

\* a request answered for A1 "Sep 2023" and the parameter "2023-09"
C3_Witness ==
    /\ pc = "sent"
    /\ DateCell = Str(in_Sep2023)
    /\ invoicingMonthParameter = Str(in_2023_09)
    /\ outputObj.InvoicingMonth = in_2023_09

\* C4: for every text cell ending in "Rate" in a column other than the last,
\* on any row, the rate table holds under the cell's first word the value of
\* the cell to its right on the same row when that cell is present, and
\* "No value" when and only when it is absent.
C4_RateFromRightNeighbour ==
    RatesBuilt =>
        \A i \in DOMAIN file :
            (IsRateCell(file[i]) /\ ColOfKey(file[i].k) < Len(columnLetters)) =>
                LET right == ValueAt(ColOfKey(file[i].k) + 1, RowOfKey(file[i].k))
                IN  PropGet(currencyRates, SplitFirst(file[i].v.s)) =
                        IF right # Undef THEN right ELSE Str(s_NoValue)

\* the messages the schema yields for row r, over the columns c..Z in order
RECURSIVE ExpectedErrors(_, _)
ExpectedErrors(c, r) ==
    IF c > Len(columnLetters) THEN <<>>
    ELSE LET name == ValueAt(c, HeaderRow)
         IN  (IF c \in LayoutColumns /\ IsStr(name) /\ name.s \in mandatoryFields
              THEN FormatErrors(name.s, safeParse(name.s, ValueAt(c, r)))
              ELSE <<>>)
             \o ExpectedErrors(c + 1, r)

\* the column a name stands for: the rightmost one when header cells repeat it
ColumnNamed(name) ==
    CHOOSE c \in LayoutColumns :
        /\ ToStringChars(ValueAt(c, HeaderRow)) = name
        /\ \A d \in LayoutColumns : ToStringChars(ValueAt(d, HeaderRow)) = name => d <= c

FailingFields(record) ==
    {record[s_validationErrors].s[k].field : k \in DOMAIN record[s_validationErrors].s}

C6_UnknownCurrencySentinel ==
    TotalsCalculated =>
        /\ Len(invoicesData) = Len(rowsToProcess)
        /\ \A i \in DOMAIN invoicesData :
            LET record == invoicesData[i]
                currency == IF s_InvoiceCurrency \in DOMAIN record
                            THEN record[s_InvoiceCurrency] ELSE Undef
            IN  ToStringChars(currency) \notin DOMAIN currencyRates
                    => record[s_InvoiceTotal] = Str(s_NoSuchCurrency)

\* C7: validateSheetStructure accepts only sheets with exactly one "Status"
\* cell and exactly one "Invoice #" cell.
C7_ExactlyOneOfEachAnchor ==
    StructureAccepted =>
        CountOf(Str(s_Status)) = 1 /\ CountOf(Str(s_InvoiceNo)) = 1

\* C8: every structural rejection names the missing element: the anchor for
\* a missing "Status" or "Invoice #" cell, the absent field for a missing
\* mandatory label.
C8_RejectionNamesMissingElement ==
    (pc = "thrown" /\ error \in StructureErrors) =>
        /\ CountOf(Str(s_Status)) = 0 => Contains(error, s_Status)
        /\ (CountOf(Str(s_Status)) > 0 /\ CountOf(Str(s_InvoiceNo)) = 0)
              => Contains(error, s_InvoiceNo) /\ error # e_NoStatus
        /\ error = e_MandatoryMissing =>
              \E field \in mandatoryFields :
                  CountOf(Str(field)) = 0 /\ Contains(error, field)

\* C9: when validateSheetStructure accepts a sheet, the column layout
\* harvested from the header row has every mandatory field name.
C9_LayoutHasMandatoryFields ==
    RecordsExtracted => mandatoryFields \subseteq LayoutNames

\* C10: the fields of a record, validationErrors aside, are keyed by column
\* names of the header row: a column without a header value passes no value
\* of the row into the record.  (Checked for the fields that hold a value.)
C10_OnlyLayoutColumnsInRecord ==
    RecordsExtracted =>
        \A i \in DOMAIN invoicesData :
            \A key \in (DOMAIN invoicesData[i]) \ {s_validationErrors} :
                invoicesData[i][key] # Undef => key \in LayoutNames

=============================================================================
